---- MODULE Spec2Model ----
(***************************************************************************)
(* Model of the review editor widgets (EditUserResourceReview and          *)
(* EditUserResourceReviewV2) and of the server-side props builder          *)
(* (createServerSideProps).                                                *)
(*                                                                         *)
(* Two specifications share the module:                                    *)
(*   SpecSSR     one invocation of a handler built by createServerSideProps *)
(*   SpecReview  one mounted review editor widget and its mutation calls   *)
(***************************************************************************)
EXTENDS Integers, Sequences, FiniteSets, Bags, TLC

(***************************************************************************)
(* JavaScript values.  Every value is a record with the same four fields   *)
(* so that any two values can be compared: t is the type tag, s the string *)
(* payload, n the numeric payload and o the own enumerable properties (a   *)
(* function from property names to values).  A promise keeps the object it *)
(* will resolve to in o, but has no own enumerable properties.             *)
(***************************************************************************)
EmptyObj == [k \in {} |-> 0]

Undefined == [t |-> "undefined", s |-> "", n |-> 0, o |-> EmptyObj]

Null == [t |-> "null", s |-> "", n |-> 0, o |-> EmptyObj]

True == [t |-> "boolean", s |-> "true", n |-> 0, o |-> EmptyObj]

False == [t |-> "boolean", s |-> "false", n |-> 0, o |-> EmptyObj]

Str(s) == [t |-> "string", s |-> s, n |-> 0, o |-> EmptyObj]

Num(n) == [t |-> "number", s |-> "", n |-> n, o |-> EmptyObj]

Bool(b) == IF b THEN True ELSE False

Obj(f) == [t |-> "object", s |-> "", n |-> 0, o |-> f]

PromiseOf(f) == [t |-> "promise", s |-> "", n |-> 0, o |-> f]

\* JavaScript truthiness, as used by `if (x)`, `!x` and `x ? a : b`.
Truthy(v) ==
    CASE v.t = "undefined" -> FALSE
      [] v.t = "null" -> FALSE
      [] v.t = "boolean" -> v.s = "true"
      [] v.t = "string" -> v.s # ""
      [] v.t = "number" -> v.n # 0
      [] OTHER -> TRUE

\* a ?? b
Coalesce(a, b) == IF a.t \in {"undefined", "null"} THEN b ELSE a

\* x?.k and x.k on an object value (undefined when the property is absent)
Get(v, k) == IF v.t = "object" /\ k \in DOMAIN v.o THEN v.o[k] ELSE Undefined

\* the entries `...v` contributes to an object literal
OwnEntries(v) == IF v.t = "object" THEN v.o ELSE EmptyObj

\* { ...a, ...b }: later entries override earlier ones
Spread(a, b) ==
    [k \in (DOMAIN a) \cup (DOMAIN b) |-> IF k \in DOMAIN b THEN b[k] ELSE a[k]]

\* { k: v }
Single(k, v) == [x \in {k} |-> v]

\* String.prototype.startsWith on strings held as sequences of characters
StartsWith(str, prefix) ==
    /\ Len(str) >= Len(prefix)
    /\ SubSeq(str, 1, Len(prefix)) = prefix

VARIABLES
    \* ---- server-side props handler ----
    options,      \* { useSSG, useSession, prefetch } the handler was built with
    pc,           \* position of the handler invocation
    context,      \* the request: [url, session]
    isClient,     \* Undefined until computed
    session,      \* session resolved for this request
    features,     \* feature flags resolved for this request
    ssg,          \* prefetch context: [built, cache]
    result,       \* what the resolver returned
    output,       \* what the handler returned
    error,        \* the failure the handler rejected with ("" when none)
    invoked,      \* per collaborator: how often it was called for this request
    callLog,      \* the collaborators called for this request, in call order
    resolverArgs, \* what the resolver was called with
    \* ---- review editor widget ----
    variant,          \* "V1" = EditUserResourceReview, "V2" = EditUserResourceReviewV2
    resourceReview,   \* the resourceReview / userReview prop
    editDetail,       \* V1 editDetail, V2 opened
    form,             \* [details, defaultDetails] held by useForm
    mutations,        \* outstanding mutation calls (a bag)
    last              \* the handler that ran last: [op, arg, focus, wasDirty, found];
                      \* focus: it scheduled setTimeout(focus, 100);
                      \* wasDirty: the form was dirty when it started;
                      \* found: the form's details value when it started
VARIABLE
    peer              \* an EditUserResourceReviewV2 given the same review and
                      \* events (SpecPair): [editDetail, form, mutations]

ssrVars == <<options, pc, context, isClient, session, features, ssg, result,
             output, error, invoked, callLog, resolverArgs>>

reviewVars == <<variant, resourceReview, editDetail, form, mutations, last, peer>>

vars == <<options, pc, context, isClient, session, features, ssg, result,
          output, error, invoked, callLog, resolverArgs, variant, resourceReview, editDetail, form,
          mutations, last, peer>>

(***************************************************************************)
(* Part B: createServerSideProps                                           *)
(***************************************************************************)

\* '/_next/data'
NextDataPrefix == <<"/", "_", "n", "e", "x", "t", "/", "d", "a", "t", "a">>

\* context.req.url values tried: absent, a soft navigation, a page request,
\* a path that merely contains the prefix, and a proper prefix of the prefix
NoUrl == <<"undefined">>

Urls ==
    { NoUrl,
      NextDataPrefix \o <<"/", "b", "/", "m", ".", "j", "s", "o", "n">>,
      NextDataPrefix,
      <<"/", "m">>,
      <<"/", "m">> \o NextDataPrefix,
      SubSeq(NextDataPrefix, 1, Len(NextDataPrefix) - 1) }

\* sessions: the one upstream middleware attached, the one the session
\* resolver returns
AttachedSessions == {Undefined, Null, Obj(Single("user", Str("attached")))}

ResolvedSessions == {Null, Obj(Single("user", Str("resolved")))}

\* keys a page resolver may put in its props
PropKeys == {"foo", "session", "trpcState"}

PropsObject(keys) == [k \in keys |-> Str("page")]

PropsObjects == {PropsObject(keys) : keys \in SUBSET PropKeys}

PropsValues ==
    {Undefined} \cup {Obj(P) : P \in PropsObjects}
                \cup {PromiseOf(P) : P \in PropsObjects}

Redirect == Obj(Single("destination", Str("/login")))

ResultObject(hasRedirect, hasNotFound, props) ==
    Obj([k \in (IF hasRedirect THEN {"redirect"} ELSE {})
               \cup (IF hasNotFound THEN {"notFound"} ELSE {})
               \cup (IF props.t # "undefined" THEN {"props"} ELSE {}) |->
            CASE k = "redirect" -> Redirect
              [] k = "notFound" -> True
              [] OTHER -> props])

ResolverResults ==
    {Undefined} \cup
    {ResultObject(r, nf, p) : r \in BOOLEAN, nf \in BOOLEAN, p \in PropsValues}

\* queries a resolver may prefetch into the prefetch context
Queries == {"q1"}

OptionSets ==
    [useSSG : {Undefined, True, False},
     useSession : {Undefined, True, False},
     prefetch : {Undefined, Str("once"), Str("always")}]

Collaborators ==
    {"getServerAuthSession", "getFeatureFlagsLazy", "getServerProxySSGHelpers",
     "resolver", "dehydrate"}

NoSSG == [built |-> FALSE, cache |-> {}]

\* defaults of the destructured options
useSSG == Truthy(options.useSSG)

\* faulty variant: useSession defaults to true
useSession_DefaultOn ==
    Truthy(IF options.useSession.t = "undefined" THEN True ELSE options.useSession)

useSession == Truthy(IF options.useSession.t = "undefined" THEN False ELSE options.useSession)

prefetch == IF options.prefetch.t = "undefined" THEN Str("once") ELSE options.prefetch

\* context.req.url?.startsWith('/_next/data') ?? false
ComputeIsClient(url) ==
    IF url = NoUrl THEN FALSE ELSE StartsWith(url, NextDataPrefix)

\* faulty variant: the snapshot is taken from an empty cache, as it was
\* before the resolver ran
dehydrate_BeforeResolver(helpers) ==
    [t |-> "object", s |-> "dehydrated", n |-> 0, o |-> EmptyObj]

\* faulty variant: prefetch 'always' is ignored on soft navigations
ShouldBuildSSG_IgnoresAlways(ssgOn, pf, client) == ssgOn /\ ~client

\* useSSG && (prefetch === 'always' || !isClient)
ShouldBuildSSG(ssgOn, pf, client) == ssgOn /\ (pf = Str("always") \/ ~client)

\* getFeatureFlagsLazy({ user: session?.user, req })
getFeatureFlagsLazy(sess, req) == [user |-> Get(sess, "user"), url |-> req.url]

NoFeatures == [user |-> Undefined, url |-> NoUrl]

\* ssg.dehydrate(): the serialized snapshot of the prefetch cache
dehydrate(helpers) ==
    [t |-> "object", s |-> "dehydrated", n |-> 0,
     o |-> [q \in helpers.cache |-> Str("data")]]

Called(name) ==
    /\ invoked' = [invoked EXCEPT ![name] = @ + 1]
    /\ callLog' = Append(callLog, name)

NoArgs == [ctx |-> [url |-> NoUrl, session |-> Undefined], isClient |-> Undefined,
           ssg |-> NoSSG, session |-> Undefined, features |-> NoFeatures]

Fail(name) ==
    /\ pc' = "failed"
    /\ error' = name

\* the request arrives; isClient is computed
Handler ==
    /\ pc = "idle"
    /\ \E url \in Urls, attached \in AttachedSessions :
          /\ context' = [url |-> url, session |-> attached]
          /\ isClient' = Bool(ComputeIsClient(url))
    /\ pc' = "session"
    /\ UNCHANGED <<options, session, features, ssg, result, output, error,
                   invoked, callLog, resolverArgs, reviewVars>>

\* faulty variant: a failing session resolver is translated into "no session"
\* and the pipeline carries on
ResolveSession_Fallback ==
    /\ pc = "session"
    /\ IF context.session.t \notin {"undefined", "null"}
       THEN /\ session' = context.session
            /\ pc' = "features"
            /\ UNCHANGED <<invoked, callLog, error>>
       ELSE IF useSession
       THEN /\ Called("getServerAuthSession")
            /\ \/ /\ \E s \in ResolvedSessions : session' = s
                  /\ pc' = "features"
                  /\ UNCHANGED error
               \/ /\ error' = "getServerAuthSession"
                  /\ pc' = "features"
                  /\ session' = Null
       ELSE /\ session' = Null
            /\ pc' = "features"
            /\ UNCHANGED <<invoked, callLog, error>>
    /\ UNCHANGED <<options, context, isClient, features, ssg, result, output,
                   resolverArgs, reviewVars>>

\* context.req.session ?? (useSession ? await getServerAuthSession(context) : null)
ResolveSession ==
    /\ pc = "session"
    /\ IF context.session.t \notin {"undefined", "null"}
       THEN /\ session' = context.session
            /\ pc' = "features"
            /\ UNCHANGED <<invoked, callLog, error>>
       ELSE IF useSession
       THEN /\ Called("getServerAuthSession")
            /\ \/ /\ \E s \in ResolvedSessions : session' = s
                  /\ pc' = "features"
                  /\ UNCHANGED error
               \/ /\ Fail("getServerAuthSession")
                  /\ UNCHANGED session
       ELSE /\ session' = Null
            /\ pc' = "features"
            /\ UNCHANGED <<invoked, callLog, error>>
    /\ UNCHANGED <<options, context, isClient, features, ssg, result, output,
                   resolverArgs, reviewVars>>

\* faulty variant: the flags are computed from the session attached to the
\* request instead of the resolved one
ResolveFeatures_FromRequest ==
    /\ pc = "features"
    /\ Called("getFeatureFlagsLazy")
    /\ \/ /\ features' = getFeatureFlagsLazy(context.session, context)
          /\ pc' = "ssg"
          /\ UNCHANGED error
       \/ /\ Fail("getFeatureFlagsLazy")
          /\ UNCHANGED features
    /\ UNCHANGED <<options, context, isClient, session, ssg, result, output,
                   resolverArgs, reviewVars>>

\* const features = getFeatureFlagsLazy({ user: session?.user, req: context.req })
ResolveFeatures ==
    /\ pc = "features"
    /\ Called("getFeatureFlagsLazy")
    /\ \/ /\ features' = getFeatureFlagsLazy(session, context)
          /\ pc' = "ssg"
          /\ UNCHANGED error
       \/ /\ Fail("getFeatureFlagsLazy")
          /\ UNCHANGED features
    /\ UNCHANGED <<options, context, isClient, session, ssg, result, output,
                   resolverArgs, reviewVars>>

BuildSSG ==
    /\ pc = "ssg"
    /\ IF ShouldBuildSSG(useSSG, prefetch, Truthy(isClient))
       THEN /\ Called("getServerProxySSGHelpers")
            /\ \/ /\ ssg' = [built |-> TRUE, cache |-> {}]
                  /\ pc' = "resolver"
                  /\ UNCHANGED error
               \/ /\ Fail("getServerProxySSGHelpers")
                  /\ UNCHANGED ssg
       ELSE /\ ssg' = NoSSG
            /\ pc' = "resolver"
            /\ UNCHANGED <<invoked, callLog, error>>
    /\ UNCHANGED <<options, context, isClient, session, features, result,
                   output, resolverArgs, reviewVars>>

\* await resolver({ ctx, isClient, ssg, session, features }); the resolver
\* may prefetch queries into the context it was given
InvokeResolver ==
    /\ pc = "resolver"
    /\ Called("resolver")
    /\ resolverArgs' = [ctx |-> context, isClient |-> isClient, ssg |-> ssg,
                        session |-> session, features |-> features]
    /\ \E fetched \in SUBSET Queries :
          /\ ssg.built \/ fetched = {}
          /\ ssg' = [ssg EXCEPT !.cache = @ \cup fetched]
    /\ \/ /\ \E r \in ResolverResults : result' = r
          /\ pc' = "result"
          /\ UNCHANGED error
       \/ /\ Fail("resolver")
          /\ UNCHANGED result
    /\ UNCHANGED <<options, context, isClient, session, features, output,
                   reviewVars>>

\* faulty variant: session is spread after the page's props
MergeProps_SessionLast(sess, props, helpers) ==
    Spread(Spread(OwnEntries(Coalesce(props, Obj(EmptyObj))), Single("session", sess)),
           IF helpers.built THEN Single("trpcState", dehydrate(helpers)) ELSE EmptyObj)

\* { session, ...(props ?? {}), ...(ssg ? { trpcState: ssg.dehydrate() } : {}) }
MergeProps(sess, props, helpers) ==
    Spread(Spread(Single("session", sess), OwnEntries(Coalesce(props, Obj(EmptyObj)))),
           IF helpers.built THEN Single("trpcState", dehydrate(helpers)) ELSE EmptyObj)

\* faulty variant: notFound is looked at before redirect
Interpret_NotFoundFirst(res, sess, helpers) ==
    IF Truthy(res) /\ Truthy(Get(res, "notFound"))
    THEN Obj(Single("notFound", Get(res, "notFound")))
    ELSE IF Truthy(res) /\ Truthy(Get(res, "redirect"))
    THEN Obj(Single("redirect", Get(res, "redirect")))
    ELSE Obj(Single("props",
             Obj(Spread(Spread(Single("session", sess),
                               OwnEntries(Coalesce(Get(res, "props"), Obj(EmptyObj)))),
                        IF helpers.built THEN Single("trpcState", dehydrate(helpers))
                        ELSE EmptyObj))))

\* what the handler returns for a resolver result
Interpret(res, sess, helpers) ==
    IF Truthy(res) /\ Truthy(Get(res, "redirect"))
    THEN Obj(Single("redirect", Get(res, "redirect")))
    ELSE IF Truthy(res) /\ Truthy(Get(res, "notFound"))
    THEN Obj(Single("notFound", Get(res, "notFound")))
    ELSE Obj(Single("props",
             Obj(MergeProps(sess, IF Truthy(res) THEN Get(res, "props") ELSE Undefined,
                            helpers))))

Terminal(res) ==
    Truthy(res) /\ (Truthy(Get(res, "redirect")) \/ Truthy(Get(res, "notFound")))

Return ==
    /\ pc = "result"
    /\ output' = Interpret(result, session, ssg)
    /\ IF ~Terminal(result) /\ ssg.built
       THEN Called("dehydrate")
       ELSE UNCHANGED <<invoked, callLog>>
    /\ pc' = "done"
    /\ UNCHANGED <<options, context, isClient, session, features, ssg, result,
                   error, resolverArgs, reviewVars>>

(***************************************************************************)
(* Part A: the review editor widgets                                       *)
(***************************************************************************)

\* most mutation calls one widget has outstanding at a time
MaxInflight == 2

\* the Rating control's domain
Ratings == 1..5

\* comment texts the editor can hold
Texts == {"", "a", "b"}

Variants == {"V1", "V2"}

\* props of the widget
modelId == 1

modelVersionId == 2

\* id of the viewer's review once it exists
reviewId == 7

\* resourceReview?: ResourceReviewModel (V1), userReview: ResourceReviewModel | null (V2)
NoReview(v) == IF v = "V1" THEN Undefined ELSE Null

Review(details) == Obj([k \in {"id", "details"} |->
                          IF k = "id" THEN Num(reviewId) ELSE details])

Reviews(v) == {NoReview(v)} \cup {Review(d) : d \in {Null} \cup {Str(x) : x \in Texts}}

\* faulty variant: recommended only above 3
CreateCall_Above3(rating) ==
    [kind |-> "create",
     request |-> [k \in {"modelVersionId", "modelId", "rating", "recommended"} |->
                    CASE k = "modelVersionId" -> Num(modelVersionId)
                      [] k = "modelId" -> Num(modelId)
                      [] k = "rating" -> Num(rating)
                      [] OTHER -> Bool(rating > 3)],
     closure |-> FALSE]

\* createMutation.mutate({ modelVersionId, modelId, rating, recommended: rating >= 3 })
CreateCall(rating) ==
    [kind |-> "create",
     request |-> [k \in {"modelVersionId", "modelId", "rating", "recommended"} |->
                    CASE k = "modelVersionId" -> Num(modelVersionId)
                      [] k = "modelId" -> Num(modelId)
                      [] k = "rating" -> Num(rating)
                      [] OTHER -> Bool(rating >= 3)],
     closure |-> FALSE]

\* updateMutation.mutate({ id, rating, details }, { onSuccess }); closure is
\* the editDetail value the onSuccess callback's toggleEditDetail captured
\* (V2's handleToggleOpen captures nothing)
UpdateCall(id, rating, details, captured) ==
    [kind |-> "update",
     request |-> [k \in {"id", "rating", "details"} |->
                    CASE k = "id" -> id
                      [] k = "rating" -> rating
                      [] OTHER -> details],
     closure |-> captured]

\* mutation.mutate(...): the outstanding calls afterwards
mutate(call) == mutations (+) SetToBag({call})

\* the outstanding calls once one of them has settled
Settle(call) == mutations (-) SetToBag({call})

\* updateReview({ rating, details }): the outstanding calls afterwards
updateReview(rating, details) ==
    IF ~Truthy(resourceReview)
    THEN mutations
    ELSE mutate(UpdateCall(Get(resourceReview, "id"), rating, details,
                           IF variant = "V1" THEN editDetail ELSE FALSE))

\* form.formState.isDirty
isDirty(f) == f.details # f.defaultDetails

\* faulty variant: reset moves the baseline and empties the field
reset_BaselineOnly(details) == [details |-> Str(""), defaultDetails |-> details]

\* form.reset({ details })
reset(details) == [details |-> details, defaultDetails |-> details]

\* resourceReview?.details ?? ''
DetailsOrEmpty(review) == Coalesce(Get(review, "details"), Str(""))

\* if (!editDetail) setTimeout(() => commentRef.current?.focus(), 100), with
\* the editDetail value the running toggleEditDetail closure captured
SchedulesFocus(captured) == ~captured

\* the comment editor (the Form) is on screen
EditorRendered ==
    IF variant = "V1"
    THEN Truthy(Get(resourceReview, "id")) /\ editDetail
    ELSE Truthy(resourceReview) /\ editDetail

Event(op, arg, focus) ==
    last' = [op |-> op, arg |-> arg, focus |-> focus, wasDirty |-> isDirty(form),
             found |-> form.details]

\* V1: the "Add/Edit Review Comments" link or the Cancel button
toggleEditDetail ==
    /\ variant = "V1"
    /\ Truthy(Get(resourceReview, "id"))
    /\ editDetail' = ~editDetail
    /\ Event("toggleEditDetail", Undefined, SchedulesFocus(editDetail))
    /\ UNCHANGED <<variant, resourceReview, form, mutations, ssrVars>>

\* V2: the "Add/Edit Review Comments" link
handleToggleOpen ==
    /\ variant = "V2"
    /\ Truthy(resourceReview)
    /\ editDetail' = ~editDetail
    /\ Event("handleToggleOpen", Undefined, FALSE)
    /\ UNCHANGED <<variant, resourceReview, form, mutations, ssrVars>>

\* V2: the Cancel button
handleCancel ==
    /\ variant = "V2"
    /\ EditorRendered
    /\ form' = reset(DetailsOrEmpty(resourceReview))
    /\ editDetail' = ~editDetail
    /\ Event("handleCancel", Undefined, FALSE)
    /\ UNCHANGED <<variant, resourceReview, mutations, ssrVars>>

\* the user edits the comment in the rich text input
ChangeDetails ==
    /\ EditorRendered
    /\ \E text \in Texts :
          /\ Str(text) # form.details
          /\ form' = [form EXCEPT !.details = Str(text)]
          /\ Event("changeDetails", Str(text), FALSE)
    /\ UNCHANGED <<variant, resourceReview, editDetail, mutations, ssrVars>>

\* handleSubmit({ details }) = updateReview({ details })
handleSubmit == updateReview(Undefined, form.details)

\* faulty variant: the form cannot be submitted while a call is outstanding
SubmitForm_WhileIdle ==
    /\ EditorRendered
    /\ variant = "V2" => isDirty(form)
    /\ mutations = EmptyBag
    /\ mutations' = handleSubmit
    /\ Event("submit", form.details, FALSE)
    /\ UNCHANGED <<variant, resourceReview, editDetail, form, ssrVars>>

\* the Save button of the form (V2 disables it while the form is not dirty)
SubmitForm ==
    /\ EditorRendered
    /\ variant = "V2" => isDirty(form)
    /\ BagCardinality(mutations) < MaxInflight
    /\ mutations' = handleSubmit
    /\ Event("submit", form.details, FALSE)
    /\ UNCHANGED <<variant, resourceReview, editDetail, form, ssrVars>>

\* faulty variant: save() submits without looking at the dirty flag
save_Unconditional ==
    /\ BagCardinality(mutations) < MaxInflight
    /\ mutations' = handleSubmit
    /\ Event("save", form.details, FALSE)
    /\ UNCHANGED <<variant, resourceReview, editDetail, form, ssrVars>>

\* save() of the imperative handle
save ==
    /\ isDirty(form) => BagCardinality(mutations) < MaxInflight
    /\ mutations' = IF isDirty(form) THEN handleSubmit ELSE mutations
    /\ Event("save", form.details, FALSE)
    /\ UNCHANGED <<variant, resourceReview, editDetail, form, ssrVars>>

\* faulty variant: the rating update also sends the form's details
handleRatingChange_WithDetails ==
    /\ variant = "V1"
    /\ BagCardinality(mutations) < MaxInflight
    /\ \E rating \in Ratings :
          /\ mutations' = IF ~Truthy(Get(resourceReview, "id"))
                          THEN mutate(CreateCall(rating))
                          ELSE updateReview(Num(rating), form.details)
          /\ Event("handleRatingChange", Num(rating), FALSE)
    /\ UNCHANGED <<variant, resourceReview, editDetail, form, ssrVars>>

\* V1: the Rating control's onChange
handleRatingChange ==
    /\ variant = "V1"
    /\ BagCardinality(mutations) < MaxInflight
    /\ \E rating \in Ratings :
          /\ mutations' = IF ~Truthy(Get(resourceReview, "id"))
                          THEN mutate(CreateCall(rating))
                          ELSE updateReview(Num(rating), Undefined)
          /\ Event("handleRatingChange", Num(rating), FALSE)
    /\ UNCHANGED <<variant, resourceReview, editDetail, form, ssrVars>>

\* faulty variant: every successful update toggles the editor
UpdateSuccess_AlwaysToggles ==
    \E call \in BagToSet(mutations) :
       LET details == call.request["details"] IN
       /\ call.kind = "update"
       /\ mutations' = Settle(call)
       /\ editDetail' = ~editDetail
       /\ form' = IF Truthy(details) THEN reset(details) ELSE form
       /\ Event("updateSuccess", Obj(call.request),
                variant = "V1" /\ SchedulesFocus(call.closure))
       /\ UNCHANGED <<variant, resourceReview, ssrVars>>

\* an update call succeeds: its onSuccess(response, request) runs
UpdateSuccess ==
    \E call \in BagToSet(mutations) :
       LET details == call.request["details"] IN
       /\ call.kind = "update"
       /\ mutations' = Settle(call)
       /\ IF Truthy(details)
          THEN /\ editDetail' = ~editDetail
               /\ form' = reset(details)
          ELSE UNCHANGED <<editDetail, form>>
       /\ Event("updateSuccess", Obj(call.request),
                Truthy(details) /\ variant = "V1" /\ SchedulesFocus(call.closure))
       /\ UNCHANGED <<variant, resourceReview, ssrVars>>

\* a create call succeeds: no callback was registered for it
CreateSuccess ==
    \E call \in BagToSet(mutations) :
       /\ call.kind = "create"
       /\ mutations' = Settle(call)
       /\ Event("createSuccess", Undefined, FALSE)
       /\ UNCHANGED <<variant, resourceReview, editDetail, form, ssrVars>>

\* a mutation call fails: nothing at this layer reacts
MutationError ==
    \E call \in BagToSet(mutations) :
       /\ mutations' = Settle(call)
       /\ Event("mutationError", Undefined, FALSE)
       /\ UNCHANGED <<variant, resourceReview, editDetail, form, ssrVars>>

\* faulty variant: the effect keeps unsaved edits instead of resetting
ReviewChanged_KeepEdits ==
    \E review \in Reviews(variant) :
       /\ review # resourceReview
       /\ resourceReview' = review
       /\ form' = IF /\ Get(review, "details") # Get(resourceReview, "details")
                     /\ ~isDirty(form)
                  THEN reset(DetailsOrEmpty(review))
                  ELSE form
       /\ Event("reviewChanged", Get(review, "details"), FALSE)
       /\ UNCHANGED <<variant, editDetail, mutations, ssrVars>>

\* the data layer hands the widget another review; the effect on
\* resourceReview?.details resets the form when that value changed
ReviewChanged ==
    \E review \in Reviews(variant) :
       /\ review # resourceReview
       /\ resourceReview' = review
       /\ form' = IF Get(review, "details") # Get(resourceReview, "details")
                  THEN reset(DetailsOrEmpty(review))
                  ELSE form
       /\ Event("reviewChanged", Get(review, "details"), FALSE)
       /\ UNCHANGED <<variant, editDetail, mutations, ssrVars>>

(***************************************************************************)
(* EditUserResourceReviewV2 as a function of its own state p =             *)
(* [editDetail, form, mutations], for running it beside an                 *)
(* EditUserResourceReview that is given the same review and events         *)
(***************************************************************************)

\* V2: const handleToggleOpen = () => setEditDetail((state) => !state)
PeerToggleOpen(p) == [p EXCEPT !.editDetail = ~@]

\* V2: handleCancel: form.reset({ details: userReview?.details ?? '' }) and
\* the toggle
PeerCancel(p, review) ==
    [p EXCEPT !.form = reset(DetailsOrEmpty(review)), !.editDetail = ~@]

\* the rich text input of the V2 form
PeerChangeDetails(p, details) == [p EXCEPT !.form.details = details]

\* V2: handleSubmit({ details }) = updateReview({ details })
PeerSubmit(p, review) ==
    IF ~Truthy(review)
    THEN p
    ELSE [p EXCEPT !.mutations =
             @ (+) SetToBag({UpdateCall(Get(review, "id"), Undefined,
                                        p.form.details, FALSE)})]

\* V2: save() of the imperative handle
PeerSave(p, review) == IF isDirty(p.form) THEN PeerSubmit(p, review) ELSE p

\* faulty variant: the success resets the form and leaves the editor open
PeerUpdateSuccess_StaysOpen(p, call) ==
    LET settled == [p EXCEPT !.mutations = @ (-) SetToBag({call})] IN
    IF Truthy(call.request["details"])
    THEN [settled EXCEPT !.form = reset(call.request["details"])]
    ELSE settled

\* V2: onSuccess of an update call: if (request.details) { toggle; reset }
PeerUpdateSuccess(p, call) ==
    LET settled == [p EXCEPT !.mutations = @ (-) SetToBag({call})] IN
    IF Truthy(call.request["details"])
    THEN [settled EXCEPT !.editDetail = ~@,
                         !.form = reset(call.request["details"])]
    ELSE settled

\* V2: useEffect(() => form.reset({ details: userReview?.details ?? '' }),
\* [userReview?.details])
PeerReviewChanged(p, old, new) ==
    IF Get(new, "details") # Get(old, "details")
    THEN [p EXCEPT !.form = reset(DetailsOrEmpty(new))]
    ELSE p

\* the V2 comment editor is on screen
PeerEditorRendered(p, review) == Truthy(review) /\ p.editDetail

\* the same comment event given to both widgets
PairToggleOpen ==
    /\ ~editDetail /\ ~peer.editDetail
    /\ toggleEditDetail
    /\ peer' = PeerToggleOpen(peer)

PairCancel ==
    /\ EditorRendered /\ PeerEditorRendered(peer, resourceReview)
    /\ toggleEditDetail
    /\ peer' = PeerCancel(peer, resourceReview)

PairChangeDetails ==
    /\ PeerEditorRendered(peer, resourceReview)
    /\ ChangeDetails
    /\ peer' = PeerChangeDetails(peer, form'.details)

PairSubmit ==
    /\ isDirty(form)
    /\ PeerEditorRendered(peer, resourceReview) /\ isDirty(peer.form)
    /\ BagCardinality(peer.mutations) < MaxInflight
    /\ SubmitForm
    /\ peer' = PeerSubmit(peer, resourceReview)

PairSave ==
    /\ isDirty(peer.form) => BagCardinality(peer.mutations) < MaxInflight
    /\ save
    /\ peer' = PeerSave(peer, resourceReview)

PairUpdateSuccess ==
    /\ UpdateSuccess
    /\ \E call \in BagToSet(peer.mutations) :
          /\ Obj(call.request) = last'.arg
          /\ peer' = PeerUpdateSuccess(peer, call)

PairReviewChanged ==
    /\ ReviewChanged
    /\ Truthy(resourceReview')
    /\ peer' = PeerReviewChanged(peer, resourceReview, resourceReview')

(***************************************************************************)
(* Specifications                                                          *)
(***************************************************************************)

SSRIdle ==
    /\ pc = "idle"
    /\ context = [url |-> NoUrl, session |-> Undefined]
    /\ isClient = Undefined
    /\ session = Undefined
    /\ features = NoFeatures
    /\ ssg = NoSSG
    /\ result = Undefined
    /\ output = Undefined
    /\ error = ""
    /\ invoked = [c \in Collaborators |-> 0]
    /\ callLog = <<>>
    /\ resolverArgs = NoArgs

\* the second widget when there is none
NoPeer == [editDetail |-> FALSE, form |-> reset(Str("")), mutations |-> EmptyBag]

ReviewMounted ==
    /\ form = reset(DetailsOrEmpty(resourceReview))
    /\ mutations = EmptyBag
    /\ last = [op |-> "mount", arg |-> Undefined, focus |-> FALSE, wasDirty |-> FALSE,
               found |-> form.details]

\* a handler built with any options, before its request arrives
InitSSR ==
    /\ options \in OptionSets
    /\ SSRIdle
    /\ variant = "V1"
    /\ resourceReview = Undefined
    /\ editDetail = FALSE
    /\ ReviewMounted
    /\ peer = NoPeer

\* a widget of either variant right after its first render
InitReview ==
    /\ options = [useSSG |-> Undefined, useSession |-> Undefined, prefetch |-> Undefined]
    /\ SSRIdle
    /\ variant \in Variants
    /\ resourceReview \in Reviews(variant)
    /\ editDetail \in (IF variant = "V1" THEN BOOLEAN ELSE {FALSE})
    /\ ReviewMounted
    /\ peer = NoPeer

NextSSR ==
    \/ Handler
    \/ ResolveSession
    \/ ResolveFeatures
    \/ BuildSSG
    \/ InvokeResolver
    \/ Return

NextReview ==
    \/ toggleEditDetail /\ UNCHANGED peer
    \/ handleToggleOpen /\ UNCHANGED peer
    \/ handleCancel /\ UNCHANGED peer
    \/ ChangeDetails /\ UNCHANGED peer
    \/ SubmitForm /\ UNCHANGED peer
    \/ save /\ UNCHANGED peer
    \/ handleRatingChange /\ UNCHANGED peer
    \/ UpdateSuccess /\ UNCHANGED peer
    \/ CreateSuccess /\ UNCHANGED peer
    \/ MutationError /\ UNCHANGED peer
    \/ ReviewChanged /\ UNCHANGED peer

SpecSSR == InitSSR /\ [][NextSSR]_vars

SpecReview == InitReview /\ [][NextReview]_vars

\* an EditUserResourceReview and an EditUserResourceReviewV2 side by side:
\* an existing review, both collapsed
InitPair ==
    /\ SSRIdle
    /\ options = [useSSG |-> Undefined, useSession |-> Undefined,
                  prefetch |-> Undefined]
    /\ variant = "V1"
    /\ resourceReview \in Reviews("V1") \ {NoReview("V1")}
    /\ editDetail = FALSE
    /\ ReviewMounted
    /\ peer = [editDetail |-> FALSE,
               form |-> reset(DetailsOrEmpty(resourceReview)),
               mutations |-> EmptyBag]

NextPair ==
    \/ PairToggleOpen
    \/ PairCancel
    \/ PairChangeDetails
    \/ PairSubmit
    \/ PairSave
    \/ PairUpdateSuccess
    \/ PairReviewChanged

SpecPair == InitPair /\ [][NextPair]_vars

(***************************************************************************)
(* Properties of the review editor widgets (checked under SpecReview)      *)
(***************************************************************************)

\* the request of an update call carried details and no rating
DetailsOnly(request) ==
    /\ Get(request, "details").t # "undefined"
    /\ Get(request, "rating").t = "undefined"

\* the step is the success of a details-only update call
DetailsUpdateSucceeds ==
    /\ last'.op = "updateSuccess"
    /\ DetailsOnly(last'.arg)

\* C1: after a details-only update succeeds the comment editor is collapsed,
\* and that success changed it exactly once, from expanded to collapsed,
\* whatever happened between issuing the call and its success.
C1_CollapsesExactlyOnce ==
    [][DetailsUpdateSucceeds => (editDetail /\ ~editDetail')]_vars

\* C2: after a details-only update succeeds the form is not dirty and its
\* baseline is the details value that was sent, the empty string included.
C2_CleanAfterDetailsUpdate ==
    [][DetailsUpdateSucceeds =>
          /\ form'.details = form'.defaultDetails
          /\ form'.defaultDetails = Get(last'.arg, "details")]_vars

\* the one call the step issued, if the step issued exactly one call
IssuedExactly(call) == mutations' = mutations (+) SetToBag({call})

IssuedOneUpdate(id, rating, details) ==
    \E call \in BagToSet(mutations') :
       /\ IssuedExactly(call)
       /\ call.kind = "update"
       /\ DOMAIN call.request = {"id", "rating", "details"}
       /\ call.request["id"] = id
       /\ call.request["rating"] = rating
       /\ call.request["details"] = details

\* C4: save() does nothing when the form is not dirty (no call, toggle and
\* form untouched); when the form is dirty it submits exactly once: one
\* update call for the review, carrying the form's current details only.
C4_SaveFlushesOnlyWhenDirty ==
    [][last'.op = "save" =>
          /\ editDetail' = editDetail
          /\ form' = form
          /\ IF form.details = form.defaultDetails
             THEN mutations' = mutations
             ELSE IssuedOneUpdate(Get(resourceReview, "id"), Undefined, form.details)]_vars

C4_Witness ==
    /\ last.op = "save"
    /\ last.wasDirty
    /\ \E call \in BagToSet(mutations) :
          call.kind = "update" /\ call.request["details"] = form.details

\* C5: server wins. When the entity's details value handed to the widget
\* changes, the form's current value and baseline both become the new
\* details ('' when absent), whatever was typed before.
C5_ServerWins ==
    [][(/\ last'.op = "reviewChanged"
        /\ Get(resourceReview', "details") # Get(resourceReview, "details")) =>
          LET new == Get(resourceReview', "details")
              expected == IF new.t \in {"undefined", "null"} THEN Str("") ELSE new IN
          /\ form'.details = expected
          /\ form'.defaultDetails = expected]_vars

C5_Witness ==
    /\ last.op = "reviewChanged"
    /\ last.wasDirty
    /\ form.details = form.defaultDetails
    /\ form.details = Get(resourceReview, "details")
    /\ form.details.t = "string"

\* C9: with no review, a rating change to r issues exactly one create call
\* { modelVersionId, modelId, rating: r, recommended: r >= 3 } and nothing else.
C9_RatingCreates ==
    [][(last'.op = "handleRatingChange" /\ resourceReview = Undefined) =>
          \E call \in BagToSet(mutations') :
             /\ IssuedExactly(call)
             /\ call.kind = "create"
             /\ DOMAIN call.request = {"modelVersionId", "modelId", "rating", "recommended"}
             /\ call.request["modelVersionId"] = Num(modelVersionId)
             /\ call.request["modelId"] = Num(modelId)
             /\ call.request["rating"] = last'.arg
             /\ call.request["recommended"] = (IF last'.arg.n >= 3 THEN True ELSE False)]_vars

C9_Witness ==
    /\ last.op = "handleRatingChange"
    /\ last.arg = Num(3)
    /\ resourceReview = Undefined
    /\ BagCardinality(mutations) = 1
    /\ \E call \in BagToSet(mutations) :
          call.kind = "create" /\ call.request["recommended"] = True

\* C10: with a review, a rating change to r issues exactly one update call
\* for the review's id with rating r and no details, and no create call.
C10_RatingUpdates ==
    [][(last'.op = "handleRatingChange" /\ resourceReview # Undefined) =>
          IssuedOneUpdate(Get(resourceReview, "id"), last'.arg, Undefined)]_vars

C10_Witness ==
    /\ last.op = "handleRatingChange"
    /\ resourceReview # Undefined
    /\ last.wasDirty
    /\ \E call \in BagToSet(mutations) :
          /\ call.kind = "update"
          /\ call.request["rating"] = last.arg
          /\ call.request["details"] = Undefined

\* C14: no stale value is saved twice: once a details update has succeeded,
\* a save() that follows it with no edit in between does not send the value
\* of that update again.
C14_NoResaveAfterSuccess ==
    [][(/\ last.op = "updateSuccess"
        /\ DetailsOnly(last.arg)
        /\ last'.op = "save") =>
          \/ mutations' = mutations
          \/ form.details # Get(last.arg, "details")]_vars

\* the update requests outstanding in a bag of calls, with how often each
\* was sent
IssuedRequests(calls) ==
    LET requests == {call.request : call \in BagToSet(calls)} IN
    [request \in requests |->
        CopiesIn([kind |-> "update", request |-> request, closure |-> TRUE], calls)
      + CopiesIn([kind |-> "update", request |-> request, closure |-> FALSE], calls)]

SameCalls == IssuedRequests(mutations) = IssuedRequests(peer.mutations)

\* same expanded/collapsed state, same form value and baseline (so the same
\* dirty flag), same update calls
Equivalent ==
    /\ editDetail = peer.editDetail
    /\ form = peer.form
    /\ SameCalls

\* this step is the Cancel button, pressed on both widgets
CancelStep == last'.op = "toggleEditDetail" /\ editDetail

\* C15: an EditUserResourceReview and an EditUserResourceReviewV2 that start
\* collapsed on the same existing review and get the same comment events are
\* equivalent after every event.
C15_VariantsEquivalent == Equivalent

\* C15, amended: every comment event other than Cancel takes equivalent
\* widgets to equivalent widgets. Cancel collapses both and issues no call,
\* but EditUserResourceReview leaves its form as it is while
\* EditUserResourceReviewV2 resets its form to the review's details.
C15_EquivalentExceptCancel ==
    [][Equivalent =>
         IF CancelStep
         THEN /\ editDetail' = peer'.editDetail
              /\ SameCalls'
              /\ form' = form
              /\ peer'.form = reset(DetailsOrEmpty(resourceReview))
         ELSE Equivalent']_vars

\* Cancel with an unsaved edit: V1 keeps it, V2 has dropped it
C15_Witness ==
    /\ last.op = "toggleEditDetail"
    /\ ~editDetail /\ ~peer.editDetail
    /\ isDirty(form)
    /\ ~isDirty(peer.form)
    /\ SameCalls

\* C16: in EditUserResourceReview a focus is scheduled exactly on the
\* transitions from collapsed to expanded, whether the toggle came from the
\* user or from a mutation's success callback.
C16_FocusOnOpening ==
    [][(/\ variant = "V1"
        /\ last'.op \in {"toggleEditDetail", "updateSuccess"}
        /\ editDetail' # editDetail) => (last'.focus <=> editDetail')]_vars

\* the step is a rating change or the success of a rating-only update
RatingOnlyStep ==
    \/ last'.op = "handleRatingChange"
    \/ /\ last'.op = "updateSuccess"
       /\ Get(last'.arg, "details").t = "undefined"

\* C17: a rating change, and the success of a rating-only update, leave the
\* expanded flag and the form as they were and schedule no focus; a success
\* changes either of them only if its request carried details.
C17_RatingLeavesStateAlone ==
    [][/\ RatingOnlyStep =>
             /\ editDetail' = editDetail
             /\ form' = form
             /\ ~last'.focus
       /\ (/\ last'.op = "updateSuccess"
           /\ (editDetail' # editDetail \/ form' # form)) =>
             Get(last'.arg, "details").t = "string"]_vars

C17_Witness ==
    /\ last.op = "updateSuccess"
    /\ Get(last.arg, "details") = Undefined
    /\ Get(last.arg, "rating").t = "number"
    /\ editDetail
    /\ form.details # form.defaultDetails
    /\ last.found = form.details

\* C18: an outstanding call does not block EditUserResourceReview: with a
\* call outstanding the rating control, the form's submit and save() can
\* still run, and each of them (save() when the form is dirty) leaves a
\* call it issued among the outstanding ones.
C18_NotBlockedWhileLoading ==
    /\ (/\ variant = "V1"
        /\ mutations # EmptyBag
        /\ BagCardinality(mutations) < MaxInflight) =>
          /\ ENABLED handleRatingChange
          /\ ENABLED save
          /\ EditorRendered => ENABLED SubmitForm
    /\ (/\ variant = "V1"
        /\ \/ last.op \in {"handleRatingChange", "submit"}
           \/ last.op = "save" /\ last.wasDirty) =>
          \E call \in BagToSet(mutations) :
             IF last.op = "handleRatingChange"
             THEN call.request["rating"] = last.arg
             ELSE call.kind = "update" /\ call.request["details"] = last.arg

C18_Witness ==
    /\ variant = "V1"
    /\ last.op = "submit"
    /\ BagCardinality(mutations) = 2
    /\ \A call \in BagToSet(mutations) : call.kind = "update"
    /\ \E call \in BagToSet(mutations) : call.request["rating"].t = "number"

\* the details value of the update call whose success ran last
Sent == Get(last.arg, "details")

\* C20: when a details update succeeds with a non-empty value, the form's
\* current value and baseline both become the value that was sent; what
\* was typed since the call was issued is gone.
C20_SuccessOverwritesField ==
    (last.op = "updateSuccess" /\ Sent.t = "string" /\ Sent.s # "") =>
        /\ form.details = Sent
        /\ form.defaultDetails = Sent

C20_Witness ==
    /\ last.op = "updateSuccess"
    /\ Sent = Str("a")
    /\ last.found = Str("b")
    /\ form.details = Str("a")
    /\ form.defaultDetails = Str("a")

(***************************************************************************)
(* Properties of createServerSideProps (checked under SpecSSR)             *)
(***************************************************************************)

\* the handler returned and the resolver's result was neither a redirect
\* nor a notFound
ReturnedProps ==
    /\ pc = "done"
    /\ ~(result.t = "object" /\ "redirect" \in DOMAIN result.o)
    /\ ~(result.t = "object" /\ "notFound" \in DOMAIN result.o)

\* the props object of the handler's output
OutProps == Get(output, "props").o

\* the request's URL is a soft navigation: it begins with '/_next/data'
SoftNavigation ==
    /\ context.url # NoUrl
    /\ Len(context.url) >= 11
    /\ <<context.url[1], context.url[2], context.url[3], context.url[4],
         context.url[5], context.url[6]>> = <<"/", "_", "n", "e", "x", "t">>
    /\ <<context.url[7], context.url[8], context.url[9], context.url[10],
         context.url[11]>> = <<"/", "d", "a", "t", "a">>

\* C3: when the resolver's props is a promise that resolves to P, the
\* output props hold every entry of P, merged with session and, if a
\* prefetch context was built, the snapshot under trpcState.
C3_AsyncPropsMerged ==
    (ReturnedProps /\ Get(result, "props").t = "promise") =>
        LET P == Get(result, "props").o IN
        /\ DOMAIN OutProps = {"session"} \cup DOMAIN P
                               \cup (IF ssg.built THEN {"trpcState"} ELSE {})
        /\ \A k \in DOMAIN P \ {"session", "trpcState"} : OutProps[k] = P[k]

\* C6: after the prefetch step, a prefetch context exists exactly when
\* useSSG is on and either prefetch is 'always' or the request is not a
\* soft navigation ('once' being the default); it was constructed by one
\* call of getServerProxySSGHelpers, and never without useSSG.
C6_PrefetchContextRule ==
    pc \in {"resolver", "result", "done"} =>
        LET wanted == /\ options.useSSG = True
                      /\ \/ options.prefetch = Str("always")
                         \/ ~SoftNavigation IN
        /\ ssg.built <=> wanted
        /\ invoked["getServerProxySSGHelpers"] = (IF wanted THEN 1 ELSE 0)

C6_Witness ==
    /\ pc = "done"
    /\ options.useSSG = True
    /\ options.prefetch = Undefined
    /\ SoftNavigation
    /\ ~ssg.built

\* C7: a result carrying a redirect yields exactly { redirect }, one
\* carrying notFound and no redirect exactly { notFound }: no props, no
\* session and no snapshot, whatever else the result held.
C7_TerminalShortCircuit ==
    (pc = "done" /\ result.t = "object") =>
        /\ "redirect" \in DOMAIN result.o =>
              /\ DOMAIN output.o = {"redirect"}
              /\ output.o["redirect"] = result.o["redirect"]
        /\ ("notFound" \in DOMAIN result.o /\ "redirect" \notin DOMAIN result.o) =>
              /\ DOMAIN output.o = {"notFound"}
              /\ output.o["notFound"] = True
        /\ ("notFound" \in DOMAIN result.o \/ "redirect" \in DOMAIN result.o) =>
              invoked["dehydrate"] = 0

C7_Witness ==
    /\ pc = "done"
    /\ result.t = "object"
    /\ DOMAIN result.o = {"redirect", "notFound", "props"}
    /\ ssg.built
    /\ DOMAIN output.o = {"redirect"}

\* the props object P of a result whose props are available synchronously
\* (no result, or no props, counting as the empty object)
SyncProps == IF Get(result, "props").t = "object" THEN Get(result, "props").o ELSE EmptyObj

HasSyncProps == ReturnedProps /\ Get(result, "props").t # "promise"

\* C8 as stated: the output props are exactly the resolved session under
\* session, every entry of P, and trpcState holding the snapshot if and
\* only if a prefetch context was built.
C8_ExactEntries ==
    HasSyncProps =>
        /\ DOMAIN output.o = {"props"}
        /\ OutProps["session"] = session
        /\ \A k \in DOMAIN SyncProps : k \in DOMAIN OutProps /\ OutProps[k] = SyncProps[k]
        /\ "trpcState" \in DOMAIN OutProps <=> ssg.built
        /\ ssg.built => OutProps["trpcState"].s = "dehydrated"
        /\ DOMAIN OutProps \subseteq {"session", "trpcState"} \cup DOMAIN SyncProps

\* C8 amended: the output props have the keys session, those of P, and
\* trpcState when a prefetch context was built.  trpcState holds the
\* snapshot when a context was built (P's own trpcState, if any, is
\* overridden) and otherwise is present only as P's own entry; session
\* holds P's session entry if P has one and the resolved session otherwise;
\* every other key holds P's entry.
C8_MergedEntries ==
    HasSyncProps =>
        /\ DOMAIN output.o = {"props"}
        /\ DOMAIN OutProps = {"session"} \cup DOMAIN SyncProps
                               \cup (IF ssg.built THEN {"trpcState"} ELSE {})
        /\ \A k \in DOMAIN OutProps :
              OutProps[k] =
                 IF k = "trpcState" /\ ssg.built
                 THEN [t |-> "object", s |-> "dehydrated", n |-> 0,
                       o |-> [q \in ssg.cache |-> Str("data")]]
                 ELSE IF k \in DOMAIN SyncProps THEN SyncProps[k]
                 ELSE session

C8_Witness ==
    /\ HasSyncProps
    /\ DOMAIN SyncProps = {"foo", "session", "trpcState"}
    /\ ssg.built
    /\ ssg.cache # {}
    /\ session.t = "object"
    /\ OutProps["session"] # session
    /\ OutProps["trpcState"] # SyncProps["trpcState"]

\* the place of a collaborator in the handler's code
Rank(name) ==
    CASE name = "getServerAuthSession" -> 1
      [] name = "getFeatureFlagsLazy" -> 2
      [] name = "getServerProxySSGHelpers" -> 3
      [] name = "resolver" -> 4
      [] OTHER -> 5

\* C11: within one invocation the steps run in the order session, features,
\* (optional) prefetch context, resolver, each after the previous one has
\* completed; the flags are computed from the resolved session, and the
\* resolver receives exactly the session, flags and prefetch context of the
\* earlier steps.
C11_PipelineOrder ==
    /\ \A i, j \in 1..Len(callLog) : i < j => Rank(callLog[i]) < Rank(callLog[j])
    /\ invoked["getFeatureFlagsLazy"] = 1 =>
          pc \notin {"idle", "session", "features"} \/ error = "getFeatureFlagsLazy"
    /\ pc \in {"ssg", "resolver", "result", "done"} =>
          /\ features.user = (IF session.t = "object" THEN session.o["user"] ELSE Undefined)
          /\ features.url = context.url
    /\ invoked["getServerProxySSGHelpers"] = 1 => invoked["getFeatureFlagsLazy"] = 1
    /\ invoked["resolver"] = 1 =>
          /\ invoked["getFeatureFlagsLazy"] = 1
          /\ resolverArgs.session = session
          /\ resolverArgs.features = features
          /\ resolverArgs.features.user =
                (IF session.t = "object" THEN session.o["user"] ELSE Undefined)
          /\ resolverArgs.ssg.built = ssg.built
          /\ resolverArgs.ssg.built <=> invoked["getServerProxySSGHelpers"] = 1
          /\ resolverArgs.isClient = isClient
          /\ resolverArgs.ctx = context

C11_Witness ==
    /\ pc = "done"
    /\ callLog = <<"getServerAuthSession", "getFeatureFlagsLazy",
                   "getServerProxySSGHelpers", "resolver", "dehydrate">>
    /\ resolverArgs.session.t = "object"
    /\ resolverArgs.features.user = Str("resolved")

\* C12: no error translation and no retries.  Once a collaborator has
\* failed the handler has failed with that failure: no later step has run,
\* nothing was returned, and no collaborator was called more than once.
C12_FailurePropagates ==
    /\ \A c \in Collaborators : invoked[c] <= 1
    /\ pc = "failed" =>
          error \in {"getServerAuthSession", "getFeatureFlagsLazy",
                     "getServerProxySSGHelpers", "resolver"}
    /\ error # "" =>
          /\ pc = "failed"
          /\ output = Undefined
          /\ callLog # <<>>
          /\ callLog[Len(callLog)] = error
          /\ \A c \in Collaborators : Rank(c) > Rank(error) => invoked[c] = 0

C12_Witness ==
    /\ pc = "failed"
    /\ error = "getServerAuthSession"
    /\ callLog = <<"getServerAuthSession">>
    /\ output = Undefined

C19_SnapshotAfterResolver ==
    /\ invoked["dehydrate"] <= 1
    /\ invoked["dehydrate"] = 1 =>
          /\ pc = "done"
          /\ Len(callLog) >= 2
          /\ callLog[Len(callLog)] = "dehydrate"
          /\ callLog[Len(callLog) - 1] = "resolver"
          /\ resolverArgs.ssg.built
          /\ "trpcState" \in DOMAIN OutProps
          /\ OutProps["trpcState"].s = "dehydrated"
          /\ DOMAIN OutProps["trpcState"].o = ssg.cache
    /\ (pc = "done" /\ ssg.built) =>
          (invoked["dehydrate"] = 1 <=>
              ~(result.t = "object" /\ DOMAIN result.o \cap {"redirect", "notFound"} # {}))

C19_Witness ==
    /\ pc = "done"
    /\ invoked["dehydrate"] = 1
    /\ ssg.cache = {"q1"}
    /\ resolverArgs.ssg.cache = {}
    /\ DOMAIN OutProps["trpcState"].o = {"q1"}

====
